---- MODULE Spec2Model ----
(***************************************************************************)
(* A model of package astro (soniakeys/astro): the VSOP87 loader and       *)
(* evaluator, the Keplerian orbit propagator with its two-strategy Kepler  *)
(* solver, and the numeric helpers they use.                               *)
(*                                                                         *)
(* float64 values are modelled in fixed point: the integer k stands for    *)
(* the real k / Scale.  Bytes are one-character strings, byte strings are  *)
(* tuples of them.                                                         *)
(***************************************************************************)
EXTENDS Integers, Sequences, FiniteSets, TLC

VARIABLES
    \* LoadPlanetPath / coeff.parse
    ibody,      \* argument ibody
    readErr,    \* whether ioutil.ReadFile fails
    lines,      \* strings.Split(string(data), "\n")
    pc,         \* position of the load
    sec,        \* which parse call is running: 1 (v.l), 2 (v.b), 3 (v.r)
    n,          \* parse's n
    hdr,        \* the header fields parse holds between header and data: it, in
    v,          \* the V87Planet under construction: l, b, r
    ret,        \* what LoadPlanetPath returned: the model pointer and the error
    pos         \* what Position2000 returned on the loaded model

VARIABLES
    \* kepler, kepler2b / iterateDecimalPlaces, kepler3
    ecc,        \* argument e
    M,          \* argument M
    kpc,        \* position of the call
    start,      \* iterateDecimalPlaces' start
    iter,       \* iterateDecimalPlaces' i
    prim,       \* what kepler2b returned: E and err
    MR,         \* kepler3's MR
    f,          \* kepler3's f
    E0,         \* kepler3's E0
    d,          \* kepler3's d
    i3,         \* kepler3's i
    Eret        \* what kepler returned

VARIABLES
    \* PMod
    px,         \* argument x
    py,         \* argument y
    ppc,        \* position of the call
    pr          \* what PMod returned

VARIABLES
    \* concurrent callers of Position2000 and Orbit.Position
    model,      \* the shared V87Planet
    o,          \* the shared Orbit, with the Elements it points to
    call,       \* per caller: the method it calls
    qjde,       \* per caller: argument jde
    qpc,        \* per caller: position in the call
    qtau,       \* per caller: Position2000's local tau
    cf,         \* per caller: Position2000's local cf
    filled,     \* per caller: whether sum's loop over the slots has run
    loc,        \* per caller: the other locals (L, B, R; M, E, r, nu)
    out,        \* per caller: what the call returned
    overlap     \* whether a caller stepped while another was inside a call

VARIABLES
    \* the calendar conversions
    gy,         \* argument y
    gm,         \* argument m
    gd,         \* argument d, in half days
    gpc,        \* position of the calls
    gout        \* what the three conversions returned, in half days

VARIABLES
    \* Horner
    hx,         \* argument x
    hc,         \* argument c
    hpc,        \* position of the call
    hout        \* what Horner returned

VARIABLES
    \* floorDiv, floorDiv64
    dx,         \* argument x
    dy,         \* argument y
    dpc,        \* position of the calls
    dout        \* what floorDiv and floorDiv64 returned

loadVars == <<ibody, readErr, lines, pc, sec, n, hdr, v, ret, pos>>

keplerVars == <<ecc, M, kpc, start, iter, prim, MR, f, E0, d, i3, Eret>>

pmodVars == <<px, py, ppc, pr>>

queryVars == <<model, o, call, qjde, qpc, qtau, cf, filled, loc, out, overlap>>

dateVars == <<gy, gm, gd, gpc, gout>>

hornerVars == <<hx, hc, hpc, hout>>

divVars == <<dx, dy, dpc, dout>>

vars == <<loadVars, keplerVars, pmodVars, queryVars, dateVars, hornerVars, divVars>>

nonLoadVars ==
    <<keplerVars, pmodVars, queryVars, dateVars, hornerVars, divVars>>

nonKeplerVars ==
    <<loadVars, pmodVars, queryVars, dateVars, hornerVars, divVars>>

nonPModVars ==
    <<loadVars, keplerVars, queryVars, dateVars, hornerVars, divVars>>

nonQueryVars ==
    <<loadVars, keplerVars, pmodVars, dateVars, hornerVars, divVars>>

nonDateVars ==
    <<loadVars, keplerVars, pmodVars, queryVars, hornerVars, divVars>>

nonHornerVars ==
    <<loadVars, keplerVars, pmodVars, queryVars, dateVars, divVars>>

nonDivVars ==
    <<loadVars, keplerVars, pmodVars, queryVars, dateVars, hornerVars>>

----------------------------------------------------------------------------
(* Bounds of the model. *)

\* Longest input, in lines.
MaxLines == 3

\* Fixed-point resolution: k stands for k / Scale.
Scale == 1000

\* Bits of a float's significand where rounding is modelled (float64 has 53).
Prec == 3

\* Largest magnitude of PMod's arguments.
MaxF == 16

\* Position2000 is asked for J2000 plus 0..MaxJde half millennia.
MaxJde == 1

\* Concurrent callers.
NProc == 2

\* Last year of the calendar dates converted.
MaxYear == 10000

\* Horner's arguments: |x| <= MaxX, |c[i]| <= MaxC, degree <= MaxDeg.
MaxX == 3

MaxC == 2

MaxDeg == 2

\* Largest magnitude of floorDiv's arguments.
MaxDiv == 12

----------------------------------------------------------------------------
(* Fixed-point arithmetic and package math. *)

\* Op applied to the value of its argument(s), each computed once.
Once(Op(_), e) == CHOOSE val \in { Op(x) : x \in {e} } : TRUE

Once2(Op(_, _), e1, e2) ==
    CHOOSE val \in { Op(x, y) : x \in {e1}, y \in {e2} } : TRUE

Abs(x) == IF x < 0 THEN -x ELSE x

\* Go's integer division: the quotient truncated toward zero.
Quot(x, y) ==
    IF (x < 0) = (y < 0) THEN Abs(x) \div Abs(y) ELSE -(Abs(x) \div Abs(y))

\* The quotient rounded to the nearest integer.
RDiv(x, y) ==
    LET q == (2 * Abs(x) + Abs(y)) \div (2 * Abs(y))
    IN  IF (x < 0) = (y < 0) THEN q ELSE -q

\* A factor from which a float64's spacing exceeds the resolution.
Big == 40 * Scale

\* float64 product and quotient, rounded to the resolution; a factor above
\* Big is rounded to whole units first (a float keeps relative precision).
FMul(x, y) ==
    IF Abs(x) > Big THEN RDiv(x, Scale) * y
    ELSE IF Abs(y) > Big THEN x * RDiv(y, Scale)
    ELSE RDiv(x * y, Scale)

FDiv(x, y) == RDiv(x * Scale, y)

\* math.Mod: the remainder with the sign of x.
Mod(x, y) == x - y * Quot(x, y)

\* math.Pi, 2*math.Pi and math.Pi*.5 at the resolution.
Pi == RDiv(31416 * Scale, 10000)

TwoPi == RDiv(62832 * Scale, 10000)

HalfPi == RDiv(15708 * Scale, 10000)

\* unit.Angle.Mod1: the angle wrapped into [0, 2*Pi).
Mod1(x) == LET r == Mod(x, TwoPi) IN IF r < 0 THEN r + TwoPi ELSE r

\* The sine series x - x^3/3! + x^5/5! - ... from its k-th term on.
RECURSIVE SinSeries(_, _, _)
SinSeries(term, x2, k) ==
    IF term = 0 \/ k > 12 THEN 0
    ELSE term + Once(LAMBDA next : SinSeries(next, x2, k + 1),
                     -RDiv(FMul(term, x2), (2 * k) * (2 * k + 1)))

\* math.Sin: the argument reduced to [-Pi/2, Pi/2], then the series.
Sin(x) ==
    LET r0 == Mod(x, TwoPi)
        r1 == IF r0 > Pi THEN r0 - TwoPi ELSE IF r0 < -Pi THEN r0 + TwoPi ELSE r0
        r2 == IF r1 > HalfPi THEN Pi - r1 ELSE IF r1 < -HalfPi THEN -Pi - r1 ELSE r1
    IN  Once(LAMBDA r : Once(LAMBDA rr : SinSeries(r, rr, 1), FMul(r, r)), r2)

\* math.Cos
Cos(x) == Sin(x + HalfPi)

\* math.Tan; where the cosine vanishes at the resolution, the largest value.
TanOf(sn, cs) ==
    IF cs = 0 THEN (IF sn < 0 THEN -(Scale * Scale) ELSE Scale * Scale)
    ELSE FDiv(sn, cs)

Tan(x) == Once(LAMBDA xv : Once2(TanOf, Sin(xv), Cos(xv)), x)

\* The integer square root, by bisection of [lo, hi).
RECURSIVE ISqrt(_, _, _)
ISqrt(x, lo, hi) ==
    IF hi - lo <= 1 THEN lo
    ELSE Once(LAMBDA mid : IF mid * mid <= x THEN ISqrt(x, mid, hi)
                                             ELSE ISqrt(x, lo, mid),
              (lo + hi) \div 2)

\* math.Sqrt
Sqrt(x) == Once(LAMBDA xs : ISqrt(xs, 0, 46340), x * Scale)

\* math.Hypot
Hypot(x, y) == Once(LAMBDA xy : ISqrt(xy, 0, 46340), x * x + y * y)

\* The arctangent series t - t^3/3 + t^5/5 - ... from its k-th term on.
RECURSIVE AtanSeries(_, _, _)
AtanSeries(pow, t2, k) ==
    IF pow = 0 \/ k > 12 THEN 0
    ELSE RDiv(pow, 2 * k - 1)
         + Once(LAMBDA next : AtanSeries(next, t2, k + 1), -FMul(pow, t2))

\* math.Atan for 0 <= t <= 1, through atan t = 2 atan(t / (1 + sqrt(1 + t^2))).
AtanUnit(t) ==
    Once(LAMBDA h : Once(LAMBDA hh : 2 * AtanSeries(h, hh, 1), FMul(h, h)),
         FDiv(t, Scale + Sqrt(Scale + FMul(t, t))))

\* math.Atan
AtanOf(t) ==
    LET a == Abs(t)
        r == IF a > Scale THEN HalfPi - AtanUnit(FDiv(Scale, a)) ELSE AtanUnit(a)
    IN  IF t < 0 THEN -r ELSE r

Atan(t) == Once(AtanOf, t)

\* math.Atan2
Atan2Of(y, x) ==
    IF x > 0 THEN Atan(FDiv(y, x))
    ELSE IF x < 0 THEN (IF y >= 0 THEN Atan(FDiv(y, x)) + Pi ELSE Atan(FDiv(y, x)) - Pi)
    ELSE IF y > 0 THEN HalfPi ELSE IF y < 0 THEN -HalfPi ELSE 0

Atan2(y, x) == Once2(Atan2Of, y, x)

----------------------------------------------------------------------------
(* Bytes and the strconv conversions. *)

Digits == <<"0", "1", "2", "3", "4", "5", "6", "7", "8", "9">>

IsDigit(ch) == \E i \in 1..10 : Digits[i] = ch

\* The byte's code.
Ord(ch) ==
    IF IsDigit(ch) THEN 47 + (CHOOSE i \in 1..10 : Digits[i] = ch)
    ELSE IF ch = " " THEN 32
    ELSE IF ch = "-" THEN 45
    ELSE IF ch = "+" THEN 43
    ELSE IF ch = "." THEN 46
    ELSE 120

\* byte subtraction line[59] - '0', modulo 256.
ByteSub(x, y) == (Ord(x) - Ord(y) + 256) % 256

RECURSIVE TrimLeft(_)
TrimLeft(s) == IF s # <<>> /\ Head(s) = " " THEN TrimLeft(Tail(s)) ELSE s

RECURSIVE TrimRight(_)
TrimRight(s) ==
    IF s # <<>> /\ s[Len(s)] = " " THEN TrimRight(SubSeq(s, 1, Len(s) - 1)) ELSE s

\* strings.TrimSpace
TrimSpace(s) == TrimRight(TrimLeft(s))

AllDigits(s) == \A i \in 1..Len(s) : IsDigit(s[i])

RECURSIVE DigitsVal(_)
DigitsVal(s) ==
    IF s = <<>> THEN 0
    ELSE 10 * DigitsVal(SubSeq(s, 1, Len(s) - 1)) + (Ord(s[Len(s)]) - 48)

HasSign(s) == s # <<>> /\ Head(s) \in {"-", "+"}

Unsigned(s) == IF HasSign(s) THEN Tail(s) ELSE s

SignOf(s) == IF s # <<>> /\ Head(s) = "-" THEN -1 ELSE 1

\* strconv.Atoi: an optional sign and at least one digit, nothing else.
Atoi(s) ==
    LET u == Unsigned(s)
    IN  IF u # <<>> /\ AllDigits(u)
        THEN [ok |-> TRUE, val |-> SignOf(s) * DigitsVal(u)]
        ELSE [ok |-> FALSE, val |-> 0]

\* The fraction digits d1 d2 ... as a fixed-point value, digits below the
\* resolution dropped.
RECURSIVE FracVal(_, _)
FracVal(s, unit) ==
    IF s = <<>> \/ unit = 0 THEN 0
    ELSE (Ord(Head(s)) - 48) * (unit \div 10) + FracVal(Tail(s), unit \div 10)

PointAt(s) == IF \E i \in 1..Len(s) : s[i] = "."
              THEN CHOOSE i \in 1..Len(s) : s[i] = "."
              ELSE Len(s) + 1

\* strconv.ParseFloat on decimal text: sign, digits, optional point and digits.
ParseFloat(s) ==
    LET u  == Unsigned(s)
        p  == PointAt(u)
        ip == SubSeq(u, 1, p - 1)
        fp == SubSeq(u, p + 1, Len(u))
    IN  IF AllDigits(ip) /\ AllDigits(fp) /\ Len(ip) + Len(fp) > 0
        THEN [ok |-> TRUE, val |-> SignOf(s) * (DigitsVal(ip) * Scale + FracVal(fp, Scale))]
        ELSE [ok |-> FALSE, val |-> 0]

----------------------------------------------------------------------------
(* The data file: planets, lines and their fixed columns. *)

Earth == 2
Mars == 3
nPlanets == 8

\* planet names as found in VSOP87B files
b7 == <<"MERCURY", "VENUS  ", "EARTH  ", "MARS   ",
        "JUPITER", "SATURN ", "URANUS ", "NEPTUNE">>

fileVersion == "2"

\* A line is its length and the column ranges parse reads: byte 17, bytes
\* 22:29, byte 41, byte 59, bytes 60:67, and the three numeric fields 79:97,
\* 98:111 and 111:131.
Line(len, c17, bo, c41, c59, cnt, fa, fb, fc) ==
    [len |-> len, c17 |-> c17, bo |-> bo, c41 |-> c41, c59 |-> c59,
     cnt |-> cnt, fa |-> fa, fb |-> fb, fc |-> fc]

\* A header line: its numeric columns hold text.
Header(c41, c17, bo, c59, cnt) ==
    Line(132, c17, bo, c41, c59, cnt, <<"x">>, <<"x">>, <<"x">>)

\* A data line: its header columns are blank.
Data(len, fa, fb, fc) ==
    Line(len, " ", "       ", " ", " ", <<" ", " ">>, fa, fb, fc)

SeriesChars == {"1", "2", "3"}

LineKinds ==
    \* well-formed headers: longitude power 0 with one term, latitude power 0
    \* with one term, radius power 1 with two terms
    { Header("1", "2", b7[Earth + 1], "0", <<" ", "1">>),
      Header("2", "2", b7[Earth + 1], "0", <<" ", "1">>),
      Header("3", "2", b7[Earth + 1], "1", <<" ", "2">>),
    \* a header that declares no terms
      Header("1", "2", b7[Earth + 1], "1", <<" ", "0">>),
    \* a header whose term count is not a number, one whose count is negative,
    \* one whose power byte is no digit
      Header("1", "2", b7[Earth + 1], "0", <<"x", "1">>),
      Header("2", "2", b7[Earth + 1], "0", <<"-", "1">>),
      Header("1", "2", b7[Earth + 1], " ", <<" ", "1">>) }
    \* headers of another version, headers of another body
    \cup { Header(c, "1", b7[Earth + 1], "0", <<" ", "1">>) : c \in SeriesChars }
    \cup { Header(c, "2", b7[Mars + 1], "0", <<" ", "1">>) : c \in SeriesChars }
    \* data lines: two terms (the second line 131 bytes long), a line whose
    \* phase field starts with a blank, a line too short to hold the fields
    \cup { Data(132, <<" ", "1", ".", "5">>, <<"0">>, <<" ", "0">>),
           Data(131, <<"0", ".", "5">>, <<"1", ".", "0">>, <<"2", " ">>),
           Data(132, <<"1">>, <<" ", "1">>, <<"1">>),
           Data(0, <<>>, <<>>, <<>>) }

RECURSIVE SeqsUpTo(_, _)
SeqsUpTo(S, k) ==
    IF k = 0 THEN {<<>>}
    ELSE LET shorter == SeqsUpTo(S, k - 1)
         IN  shorter \cup { Append(s, x) : s \in { t \in shorter : Len(t) = k - 1 }, x \in S }

\* strings.Split returns at least one string.
Files == { file \in SeqsUpTo(LineKinds, MaxLines) : Len(file) >= 1 }

----------------------------------------------------------------------------
(* Horner and V87Planet.Position2000.  A date is in whole days. *)

J2000 == 2451545

JulianCentury == 36525

J2000Century(jde) == RDiv((jde - J2000) * Scale, JulianCentury)

\* Horner's loop from index i down (c[1] is the constant term).
RECURSIVE HornerLoop(_, _, _, _)
HornerLoop(x, c, i, y) ==
    IF i > 1 THEN HornerLoop(x, c, i - 1, FMul(y, x) + c[i - 1]) ELSE y

\* Horner with the coefficients taken from the highest power down.
HornerHighFirst(x, c) ==
    HornerLoop(x, [i \in 1..Len(c) |-> c[Len(c) + 1 - i]], Len(c), c[1])

\* Horner on a non-empty coefficient list (it panics on an empty one).
Horner(x, c) == HornerLoop(x, c, Len(c), c[Len(c)])

\* The terms y, y-1, ..., 1 of one power, summed in that order.
RECURSIVE TermSum(_, _, _)
TermSum(terms, tau, y) ==
    IF y = 0 THEN 0
    ELSE LET term == terms[y]
             rest == TermSum(terms, tau, y - 1)
         IN  \* cf[x] += term.a * math.Cos(term.b + term.c*tau), last term first
             FMul(term.a, Cos(term.b + FMul(term.c, tau))) + rest

\* The populated slots of a series, counted.
SeriesLenPopulated(series) == Cardinality({x \in 0..5 : series[x] # <<>>})

\* len(series): a coeff is an array of six slices.
SeriesLen(series) == 6

\* cf after sum's loop over the six slots.
Cf(series, tau) == [x \in 0..5 |-> TermSum(series[x], tau, Len(series[x]))]

\* cf[:len(series)], the coefficients sum passes to Horner.
HornerArgs(series, tau) ==
    [i \in 1..SeriesLen(series) |-> Cf(series, tau)[i - 1]]

\* Position2000's closure sum.
sum(series, tau) == Horner(tau, HornerArgs(series, tau))

NoPos == [st |-> "none"]

\* Position2000: L, B, R and, for the record, what Horner was given.
Position2000(vt, jde) ==
    LET T   == J2000Century(jde)
        tau == RDiv(T, 10)
        args == [l |-> HornerArgs(vt.l, tau),
                 b |-> HornerArgs(vt.b, tau),
                 r |-> HornerArgs(vt.r, tau)]
    IN  IF args.l = <<>> \/ args.b = <<>> \/ args.r = <<>>
        THEN [st |-> "panic", args |-> args]
        ELSE [st |-> "ok", args |-> args, jde |-> jde,
              L |-> Mod1(sum(vt.l, tau)),
              B |-> sum(vt.b, tau),
              R |-> sum(vt.r, tau)]

Jdes == { J2000 + k * 182625 : k \in 0..MaxJde }

----------------------------------------------------------------------------
(* LoadPlanetPath and coeff.parse. *)

\* a coeff: six slots, nil until parse fills them
EmptyCoeff == [x \in 0..5 |-> <<>>]

EmptyPlanet == [l |-> EmptyCoeff, b |-> EmptyCoeff, r |-> EmptyCoeff]

NoErr == [cause |-> "none", line |-> 0]

\* LineErr reporting the 0-based index instead.
LineErrZeroBased(cause, line) == [cause |-> cause, line |-> line - 1]

\* fmt.Errorf("Line %d: ...", line, ...)
LineErr(cause, line) == [cause |-> cause, line |-> line]

\* errors.New(text): no line number in it
PlainErr(cause) == [cause |-> cause, line |-> 0]

NoHdr == [it |-> 0, in |-> 0]

\* ic of the running parse call
SeriesChar(s) == CASE s = 1 -> "1" [] s = 2 -> "2" [] OTHER -> "3"

SecName(s) == CASE s = 1 -> "l" [] s = 2 -> "b" [] OTHER -> "r"

LoadInit ==
    /\ ibody \in {Earth, nPlanets}
    /\ \/ readErr = TRUE /\ lines = <<>>
       \/ readErr = FALSE /\ lines \in Files
    /\ pc = "start"
    /\ sec = 0
    /\ n = 0
    /\ hdr = NoHdr
    /\ v = EmptyPlanet
    /\ ret = [model |-> "none", err |-> NoErr]
    /\ pos = NoPos

\* Fail handing back the partly filled model with the error.
FailPartial(e) ==
    /\ pc' = "done"
    /\ ret' = [model |-> "v", err |-> e]

\* LoadPlanetPath returning (nil, err)
Fail(e) ==
    /\ pc' = "done"
    /\ ret' = [model |-> "nil", err |-> e]

\* LoadPlanetPath up to the first parse call.
LoadPlanetPath ==
    /\ pc = "start"
    /\ IF ibody < 0 \/ ibody >= nPlanets
       THEN Fail(PlainErr("planet")) /\ UNCHANGED sec
       ELSE IF readErr
       THEN Fail(PlainErr("io")) /\ UNCHANGED sec
       ELSE pc' = "loop" /\ sec' = 1 /\ UNCHANGED ret
    /\ UNCHANGED <<ibody, readErr, lines, n, hdr, v, pos, nonLoadVars>>

\* parse returning (n, nil): LoadPlanetPath calls the next parse, or returns v.
ParseReturn ==
    IF sec < 3
    THEN pc' = "loop" /\ sec' = sec + 1 /\ UNCHANGED ret
    ELSE pc' = "done" /\ ret' = [model |-> "v", err |-> NoErr] /\ UNCHANGED sec

\* The head of parse's loop: the loop condition and the two breaks.
ParseLoop ==
    /\ pc = "loop"
    /\ IF n < Len(lines) /\ lines[n + 1].len >= 132
                         /\ lines[n + 1].c41 = SeriesChar(sec)
       THEN pc' = "header" /\ UNCHANGED <<sec, ret>>
       ELSE ParseReturn
    /\ UNCHANGED <<ibody, readErr, lines, n, hdr, v, pos, nonLoadVars>>

\* parse on a header line: version, body, power and term count.
ParseHeader ==
    /\ pc = "header"
    /\ LET line == lines[n + 1]
           it   == ByteSub(line.c59, "0")
           in   == Atoi(TrimSpace(line.cnt))
       IN  IF line.c17 # fileVersion
           THEN Fail(LineErr("version", n + 1)) /\ UNCHANGED <<n, hdr>>
           ELSE IF line.bo # b7[ibody + 1]
           THEN Fail(LineErr("body", n + 1)) /\ UNCHANGED <<n, hdr>>
           ELSE IF ~in.ok
           THEN Fail(LineErr("atoi", n + 1)) /\ UNCHANGED <<n, hdr>>
           ELSE IF in.val = 0
           THEN pc' = "loop" /\ UNCHANGED <<n, hdr, ret>>
           ELSE IF in.val > Len(lines) - n
           THEN Fail(PlainErr("eof")) /\ UNCHANGED <<n, hdr>>
           ELSE /\ pc' = "data"
                /\ n' = n + 1
                /\ hdr' = [it |-> it, in |-> in.val]
                /\ UNCHANGED ret
    /\ UNCHANGED <<ibody, readErr, lines, sec, v, pos, nonLoadVars>>

\* One data line: the term, a parse error, or a slice out of range.
Term(line) ==
    LET a == ParseFloat(TrimSpace(line.fa))
        b == ParseFloat(line.fb)
        c == ParseFloat(TrimSpace(line.fc))
    IN  IF line.len < 97 THEN [st |-> "panic"]
        ELSE IF ~a.ok THEN [st |-> "err"]
        ELSE IF line.len < 111 THEN [st |-> "panic"]
        ELSE IF ~b.ok THEN [st |-> "err"]
        ELSE IF line.len < 131 THEN [st |-> "panic"]
        ELSE IF ~c.ok THEN [st |-> "err"]
        ELSE [st |-> "ok", abc |-> [a |-> a.val, b |-> b.val, c |-> c.val]]

\* The range loop over lines[n : n+in]: cbuf[:cx] and how the loop ended at
\* line index k (0-based).
RECURSIVE ReadTerms(_, _, _)
ReadTerms(k, last, cbuf) ==
    IF k >= last THEN [st |-> "ok", cbuf |-> cbuf]
    ELSE LET t == Term(lines[k + 1])
         IN  IF t.st = "ok" THEN ReadTerms(k + 1, last, Append(cbuf, t.abc))
             ELSE [st |-> t.st, cbuf |-> cbuf]

\* c[it] = append([]abc{}, cbuf[:cx]...)
StoreTerms(planet, s, it, terms) ==
    [planet EXCEPT ![SecName(s)] = [@ EXCEPT ![it] = terms]]

\* parse on the data lines of a block.
ParseData ==
    /\ pc = "data"
    /\ IF hdr.in < 0 \/ n + hdr.in > Len(lines)
       THEN \* lines[n : n+in] is out of range
            pc' = "panic" /\ UNCHANGED <<n, v, ret>>
       ELSE LET r == ReadTerms(n, n + hdr.in, <<>>)
            IN  IF r.st = "panic"
                THEN pc' = "panic" /\ UNCHANGED <<n, v, ret>>
                ELSE IF r.st = "err"
                THEN Fail(LineErr("float", n + Len(r.cbuf) + 1)) /\ UNCHANGED <<n, v>>
                ELSE IF hdr.it > 5
                THEN \* c[it] is out of range
                     pc' = "panic" /\ UNCHANGED <<n, v, ret>>
                ELSE /\ v' = StoreTerms(v, sec, hdr.it, r.cbuf)
                     /\ n' = n + hdr.in
                     /\ pc' = "loop"
                     /\ UNCHANGED ret
    /\ UNCHANGED <<ibody, readErr, lines, sec, hdr, pos, nonLoadVars>>

\* The caller evaluates the model LoadPlanetPath returned.
CallPosition2000 ==
    /\ pc = "done"
    /\ ret.model = "v"
    /\ \E jde \in Jdes : pos' = Position2000(v, jde)
    /\ pc' = "evaluated"
    /\ UNCHANGED <<ibody, readErr, lines, sec, n, hdr, v, ret, nonLoadVars>>

LoadNext ==
    LoadPlanetPath \/ ParseLoop \/ ParseHeader \/ ParseData \/ CallPosition2000

\* No load in progress.
LoadIdle ==
    /\ ibody = Earth
    /\ readErr = FALSE
    /\ lines = <<>>
    /\ pc = "idle"
    /\ sec = 0
    /\ n = 0
    /\ hdr = NoHdr
    /\ v = EmptyPlanet
    /\ ret = [model |-> "none", err |-> NoErr]
    /\ pos = NoPos

----------------------------------------------------------------------------
(* The Kepler solver: kepler, kepler2b over iterateDecimalPlaces, kepler3. *)

\* Eccentricities and mean anomalies the solver is run on (fixed point).
Eccs == {0, (3 * Scale) \div 10, (9 * Scale) \div 10, (99 * Scale) \div 100}

MaxM == 7

Ms == { (k * Scale) \div 2 : k \in -2..(2 * MaxM) }

\* kepler calls kepler2b(e, M, 15); kepler2b passes places as the limit too.
places == 15

maxIterations == places

\* kepler3's loop bound
halvings == 53

\* x < math.Pow(10, -p), for x >= 0 at the resolution s.
RECURSIVE BelowPow10(_, _, _)
BelowPow10(x, s, p) ==
    IF p = 0 THEN x < s ELSE BelowPow10(x, (s + 9) \div 10, p - 1)

\* kepler2b's f without the limiting of d.
betterUnclamped(e, Ma, E) ==
    E + FDiv(Ma + FMul(e, Sin(E)) - E, Scale - FMul(e, Cos(E)))

\* kepler2b's closure f: one damped step (method of Steele).
better(e, Ma, E) ==
    LET half == Scale \div 2
    IN  Once2(LAMBDA se, ce :
                Once(LAMBDA dd : E + (IF dd > half THEN half
                                      ELSE IF dd < -half THEN -half ELSE dd),
                     FDiv(Ma + FMul(e, se) - E, Scale - FMul(e, ce))),
              Sin(E), Cos(E))

\* One pass of kepler3's loop on E0.
BisectStep(e, mr, e0, dd) ==
    Once(LAMBDA M1 : IF mr - M1 < 0 THEN e0 - dd ELSE e0 + dd,
         e0 - FMul(e, Sin(e0)))

\* kepler3's loop from pass i on.
RECURSIVE Bisect(_, _, _, _, _)
Bisect(e, mr, e0, dd, i) ==
    IF i < halvings /\ dd # 0  \* with d = 0 the passes left add 0 to E0
    THEN Once2(LAMBDA e1, d1 : Bisect(e, mr, e1, d1, i + 1),
               BisectStep(e, mr, e0, dd), Quot(dd, 2))
    ELSE e0

\* kepler3: the value it returns.
kepler3Of(e, Ma) ==
    LET m1 == Mod1(Ma)
        ff == IF m1 > Pi THEN -1 ELSE 1
        mr == IF m1 > Pi THEN TwoPi - m1 ELSE m1
    IN  Once(LAMBDA e0 : IF ff < 0 THEN -e0 ELSE e0,
             Once(LAMBDA mrv : Bisect(e, mrv, HalfPi, RDiv(Pi, 4), 0), mr))

kepler3(e, Ma) == Once2(kepler3Of, e, Ma)

\* iterateDecimalPlaces from pass i on: the value and the error it returns.
RECURSIVE iterateDecimalPlaces(_, _, _, _)
iterateDecimalPlaces(e, Ma, st, i) ==
    IF i < maxIterations
    THEN Once(LAMBDA nn : IF BelowPow10(Abs(nn - st), Scale, places)
                          THEN [E |-> nn, err |-> FALSE]
                          ELSE iterateDecimalPlaces(e, Ma, nn, i + 1),
              better(e, Ma, st))
    ELSE [E |-> 0, err |-> TRUE]

\* kepler2b: the value and the error it returns.
kepler2b(e, Ma) == Once2(LAMBDA ev, Mv : iterateDecimalPlaces(ev, Mv, Mv, 0), e, Ma)

\* kepler's test of kepler2b's error: err != nil returns E.
ReturnsPrimary(err) == err

\* kepler: the value it returns.
kepler(e, Ma) ==
    Once(LAMBDA p : IF ReturnsPrimary(p.err) THEN p.E ELSE kepler3(e, Ma),
         kepler2b(e, Ma))

KeplerInit ==
    /\ ecc \in Eccs
    /\ M \in Ms
    /\ kpc = "kepler"
    /\ start = 0
    /\ iter = 0
    /\ prim = [E |-> 0, err |-> FALSE]
    /\ MR = 0
    /\ f = 1
    /\ E0 = 0
    /\ d = 0
    /\ i3 = 0
    /\ Eret = 0

KeplerIdle ==
    /\ ecc = 0
    /\ M = 0
    /\ kpc = "idle"
    /\ start = 0
    /\ iter = 0
    /\ prim = [E |-> 0, err |-> FALSE]
    /\ MR = 0
    /\ f = 1
    /\ E0 = 0
    /\ d = 0
    /\ i3 = 0
    /\ Eret = 0

\* kepler calls kepler2b, which calls iterateDecimalPlaces(f, M, 15, 15).
Kepler2b ==
    /\ kpc = "kepler"
    /\ kpc' = "iterate"
    /\ start' = M
    /\ iter' = 0
    /\ UNCHANGED <<ecc, M, prim, MR, f, E0, d, i3, Eret, nonKeplerVars>>

\* One pass of iterateDecimalPlaces' loop, or its exit.
IterateDecimalPlaces ==
    /\ kpc = "iterate"
    /\ IF iter < maxIterations
       THEN LET nn == better(ecc, M, start)
            IN  IF BelowPow10(Abs(nn - start), Scale, places)
                THEN /\ prim' = [E |-> nn, err |-> FALSE]
                     /\ kpc' = "returned"
                     /\ UNCHANGED <<start, iter>>
                ELSE /\ start' = nn
                     /\ iter' = iter + 1
                     /\ UNCHANGED <<prim, kpc>>
       ELSE /\ prim' = [E |-> 0, err |-> TRUE]
            /\ kpc' = "returned"
            /\ UNCHANGED <<start, iter>>
    /\ UNCHANGED <<ecc, M, MR, f, E0, d, i3, Eret, nonKeplerVars>>

\* kepler after kepler2b returned: return E, or enter kepler3.
Kepler ==
    /\ kpc = "returned"
    /\ IF ReturnsPrimary(prim.err)
       THEN /\ Eret' = prim.E
            /\ kpc' = "done"
            /\ UNCHANGED <<MR, f, E0, d, i3>>
       ELSE LET m1 == Mod1(M)
            IN  /\ f' = IF m1 > Pi THEN -1 ELSE 1
                /\ MR' = IF m1 > Pi THEN TwoPi - m1 ELSE m1
                /\ E0' = HalfPi
                /\ d' = RDiv(Pi, 4)
                /\ i3' = 0
                /\ kpc' = "bisect"
                /\ UNCHANGED Eret
    /\ UNCHANGED <<ecc, M, start, iter, prim, nonKeplerVars>>

\* One pass of kepler3's loop, or its exit.
Kepler3Loop ==
    /\ kpc = "bisect"
    /\ IF i3 < halvings
       THEN /\ E0' = BisectStep(ecc, MR, E0, d)
            /\ d' = Quot(d, 2)
            /\ i3' = i3 + 1
            /\ UNCHANGED <<Eret, kpc>>
       ELSE /\ Eret' = IF f < 0 THEN -E0 ELSE E0
            /\ kpc' = "done"
            /\ UNCHANGED <<E0, d, i3>>
    /\ UNCHANGED <<ecc, M, start, iter, prim, MR, f, nonKeplerVars>>

KeplerNext == Kepler2b \/ IterateDecimalPlaces \/ Kepler \/ Kepler3Loop

----------------------------------------------------------------------------
(* PMod, on floats with a significand of Prec bits: a float is an integer  *)
(* m * 2^j with |m| < 2^Prec, and a sum is rounded to the nearest float,   *)
(* ties to the even significand, as IEEE 754 does.                         *)

RECURSIVE Pow2(_)
Pow2(k) == IF k = 0 THEN 1 ELSE 2 * Pow2(k - 1)

\* The spacing of the floats around x.
RECURSIVE Ulp(_)
Ulp(x) == IF Abs(x) < Pow2(Prec) THEN 1 ELSE 2 * Ulp(Quot(x, 2))

Representable(x) == x % Ulp(x) = 0

\* Round to nearest, ties to even.
FloatRound(x) ==
    LET u == Ulp(x)
        q == Abs(x) \div u
        r == Abs(x) % u
        up == 2 * r > u \/ (2 * r = u /\ q % 2 = 1)
        m == (IF up THEN q + 1 ELSE q) * u
    IN  IF x < 0 THEN -m ELSE m

\* float64 addition
FloatAdd(x, y) == FloatRound(x + y)

Floats == { x \in -MaxF..MaxF : Representable(x) }

PMod(x, y) ==
    LET r == Mod(x, y)
    IN  IF r < 0 THEN FloatAdd(r, y) ELSE r

PModInit ==
    /\ px \in Floats
    /\ py \in Floats \ {0}
    /\ ppc = "call"
    /\ pr = 0

PModIdle ==
    /\ px = 0
    /\ py = 1
    /\ ppc = "idle"
    /\ pr = 0

PModCall ==
    /\ ppc = "call"
    /\ pr' = PMod(px, py)
    /\ ppc' = "done"
    /\ UNCHANGED <<px, py, nonPModVars>>

PModNext == PModCall

----------------------------------------------------------------------------
(* Orbit: NewOrbit and Orbit.Position.  Times are in whole days. *)

\* Gaussian gravitational constant, sine and cosine of the obliquity at J2000
K == RDiv(1720 * Scale, 100000)

SOblJ2000 == RDiv(39778 * Scale, 100000)

COblJ2000 == RDiv(91748 * Scale, 100000)

NewOrbit(k) ==
    LET sO == Sin(k.Node)
        cO == Cos(k.Node)
        si == Sin(k.Inc)
        ci == Cos(k.Inc)
        FF == cO
        GG == FMul(sO, COblJ2000)
        HH == FMul(sO, SOblJ2000)
        PP == -FMul(sO, ci)
        QQ == FMul(FMul(cO, ci), COblJ2000) - FMul(si, SOblJ2000)
        RR == FMul(FMul(cO, ci), SOblJ2000) + FMul(si, COblJ2000)
    IN  [k |-> k,
         n |-> FDiv(FDiv(K, k.Axis), Sqrt(k.Axis)),
         A |-> Atan2(FF, PP), B |-> Atan2(GG, QQ), C |-> Atan2(HH, RR),
         a |-> Hypot(FF, PP), b |-> Hypot(GG, QQ), c |-> Hypot(HH, RR)]

trueAnomaly(E, e) ==
    2 * Atan(Once2(FMul, Sqrt(FDiv(Scale + e, Scale - e)), Tan(RDiv(E, 2))))

radius(E, e, a) == FMul(a, Scale - FMul(e, Cos(E)))

\* M := o.n.Mul(jde - o.k.TimeP)
MeanAnomaly(orb, jde) == orb.n * (jde - orb.k.TimeP)

\* E, r and nu from M
Anomalies(orb, Ma) ==
    Once(LAMBDA E : [M |-> Ma, E |-> E,
                     r |-> radius(E, orb.k.Ecc, orb.k.Axis),
                     nu |-> trueAnomaly(E, orb.k.Ecc)],
         kepler(orb.k.Ecc, Ma))

\* (33.9): x, y, z from r and nu, returned with r
Rectangular(orb, l) ==
    [x |-> FMul(FMul(l.r, orb.a), Sin(orb.A + orb.k.ArgP + l.nu)),
     y |-> FMul(FMul(l.r, orb.b), Sin(orb.B + orb.k.ArgP + l.nu)),
     z |-> FMul(FMul(l.r, orb.c), Sin(orb.C + orb.k.ArgP + l.nu)),
     r |-> l.r]

\* Orbit.Position: the value it returns.
Position(orb, jde) ==
    Once(LAMBDA l : Rectangular(orb, l), Anomalies(orb, MeanAnomaly(orb, jde)))

----------------------------------------------------------------------------
(* Concurrent position queries on one V87Planet and one Orbit. *)

Procs == 1..NProc

Term0 == [a |-> (3 * Scale) \div 2, b |-> 0, c |-> 0]

Term1 == [a |-> Scale \div 2, b |-> Scale, c |-> 2 * Scale]

\* Models as LoadPlanetPath builds them.
Planets ==
    << [l |-> [EmptyCoeff EXCEPT ![0] = <<Term0>>, ![1] = <<Term1, Term0>>],
       b |-> [EmptyCoeff EXCEPT ![0] = <<Term1>>],
       r |-> [EmptyCoeff EXCEPT ![0] = <<Term0, Term1>>, ![2] = <<Term1>>]],
      [l |-> [EmptyCoeff EXCEPT ![0] = <<Term1>>],
       b |-> EmptyCoeff,
       r |-> [EmptyCoeff EXCEPT ![1] = <<Term0>>]] >>

\* Elements a caller of NewOrbit supplies: the circular unit orbit, and an
\* inclined eccentric one.
Elementss ==
    << [Axis |-> Scale, Ecc |-> 0, Inc |-> 0, ArgP |-> 0, Node |-> 0, TimeP |-> 0],
      [Axis |-> 2 * Scale, Ecc |-> (3 * Scale) \div 10, Inc |-> Scale \div 2,
       ArgP |-> Scale, Node |-> 2 * Scale, TimeP |-> 10] >>

\* Dates Orbit.Position is asked for.
OrbitJdes == {0, 100}

Methods == {"Position2000", "Position"}

NoLoc == [L |-> 0, B |-> 0, R |-> 0]

ZeroCf == [x \in 0..5 |-> 0]

QueryInit ==
    /\ \E w \in DOMAIN Planets :
          /\ model = Planets[w]
          /\ o = NewOrbit(Elementss[w])
    /\ call \in [Procs -> Methods]
    /\ qjde \in [Procs -> Jdes \cup OrbitJdes]
    /\ \A p \in Procs :
          qjde[p] \in (IF call[p] = "Position2000" THEN Jdes ELSE OrbitJdes)
    /\ qpc = [p \in Procs |-> "call"]
    /\ qtau = [p \in Procs |-> 0]
    /\ cf = [p \in Procs |-> ZeroCf]
    /\ filled = [p \in Procs |-> FALSE]
    /\ loc = [p \in Procs |-> NoLoc]
    /\ out = [p \in Procs |-> NoPos]
    /\ overlap = FALSE

QueryIdle ==
    /\ model = EmptyPlanet
    /\ o = [n |-> 0]
    /\ call = <<>>
    /\ qjde = <<>>
    /\ qpc = <<>>
    /\ qtau = <<>>
    /\ cf = <<>>
    /\ filled = <<>>
    /\ loc = <<>>
    /\ out = <<>>
    /\ overlap = FALSE

\* Another caller is inside a call.
Inside(p) == \E q \in Procs \ {p} : qpc[q] \notin {"call", "done"}

Stepped(p) == overlap' = (overlap \/ Inside(p))

\* A write to cf that lands in every caller's cf: one buffer shared by all.
SetCfShared(cfs, p, val) == [q \in DOMAIN cfs |-> val]

\* The writes of sum's loop to cf, the slice the call made for itself.
SetCf(cfs, p, val) == [cfs EXCEPT ![p] = val]

SeriesOf(pcv) == CASE pcv = "sum_l" -> "l" [] pcv = "sum_b" -> "b" [] OTHER -> "r"

\* Position2000 up to the first sum: T, tau and cf := make([]float64, 6).
Position2000Begin(p) ==
    /\ qpc[p] = "call"
    /\ call[p] = "Position2000"
    /\ qtau' = [qtau EXCEPT ![p] = RDiv(J2000Century(qjde[p]), 10)]
    /\ cf' = SetCf(cf, p, ZeroCf)
    /\ qpc' = [qpc EXCEPT ![p] = "sum_l"]
    /\ Stepped(p)
    /\ UNCHANGED <<model, o, call, qjde, filled, loc, out, nonQueryVars>>

\* sum's loop over the slots: cf[x] = 0 and the terms added, for each x.
SumLoop(p) ==
    /\ qpc[p] \in {"sum_l", "sum_b", "sum_r"}
    /\ ~filled[p]
    /\ cf' = SetCf(cf, p, Cf(model[SeriesOf(qpc[p])], qtau[p]))
    /\ filled' = [filled EXCEPT ![p] = TRUE]
    /\ Stepped(p)
    /\ UNCHANGED <<model, o, call, qjde, qpc, qtau, loc, out, nonQueryVars>>

\* sum's return Horner(tau, cf[:len(series)]...), and what Position2000 does
\* with it: L (reduced), B, R and the return.
SumHorner(p) ==
    /\ qpc[p] \in {"sum_l", "sum_b", "sum_r"}
    /\ filled[p]
    /\ LET series == model[SeriesOf(qpc[p])]
           val == Horner(qtau[p], [i \in 1..SeriesLen(series) |-> cf[p][i - 1]])
       IN  CASE qpc[p] = "sum_l" ->
                  /\ loc' = [loc EXCEPT ![p].L = Mod1(val)]
                  /\ qpc' = [qpc EXCEPT ![p] = "sum_b"]
                  /\ UNCHANGED out
             [] qpc[p] = "sum_b" ->
                  /\ loc' = [loc EXCEPT ![p].B = val]
                  /\ qpc' = [qpc EXCEPT ![p] = "sum_r"]
                  /\ UNCHANGED out
             [] OTHER ->
                  /\ loc' = [loc EXCEPT ![p].R = val]
                  /\ qpc' = [qpc EXCEPT ![p] = "done"]
                  /\ out' = [out EXCEPT ![p] = [L |-> loc[p].L, B |-> loc[p].B, R |-> val]]
    /\ filled' = [filled EXCEPT ![p] = FALSE]
    /\ Stepped(p)
    /\ UNCHANGED <<model, o, call, qjde, qtau, cf, nonQueryVars>>

\* Orbit.Position: M, then E (kepler), r and nu.
PositionAnomalies(p) ==
    /\ qpc[p] = "call"
    /\ call[p] = "Position"
    /\ loc' = [loc EXCEPT ![p] = Anomalies(o, MeanAnomaly(o, qjde[p]))]
    /\ qpc' = [qpc EXCEPT ![p] = "xyz"]
    /\ Stepped(p)
    /\ UNCHANGED <<model, o, call, qjde, qtau, cf, filled, out, nonQueryVars>>

\* Orbit.Position: x, y, z and the return.
PositionReturn(p) ==
    /\ qpc[p] = "xyz"
    /\ out' = [out EXCEPT ![p] = Rectangular(o, loc[p])]
    /\ qpc' = [qpc EXCEPT ![p] = "done"]
    /\ Stepped(p)
    /\ UNCHANGED <<model, o, call, qjde, qtau, cf, filled, loc, nonQueryVars>>

QueryNext ==
    \E p \in Procs :
        \/ Position2000Begin(p)
        \/ SumLoop(p)
        \/ SumHorner(p)
        \/ PositionAnomalies(p)
        \/ PositionReturn(p)

----------------------------------------------------------------------------
(* The calendar conversions.  A day number with its fraction is counted in *)
(* half days: the integer k stands for the float64 k / 2, which float64    *)
(* adds and subtracts exactly at these magnitudes.                         *)

floorDiv(x, y) ==
    IF (x < 0) = (y < 0) THEN Quot(x, y) ELSE Quot(x, y) - 1

floorDiv64(x, y) ==
    IF (x < 0) = (y < 0) THEN Quot(x, y) ELSE Quot(x, y) - 1

\* MeeusCalendarGregorianToJD, in half days; d2 is d in half days.
MeeusCalendarGregorianToJD(y, m, d2) ==
    LET y1 == IF m \in {1, 2} THEN y - 1 ELSE y
        m1 == IF m \in {1, 2} THEN m + 12 ELSE m
        a == floorDiv(y1, 100)
        b == 2 - a + floorDiv(a, 4)
    IN  2 * floorDiv64(36525 * (y1 + 4716), 100)
        + 2 * (floorDiv(306 * (m1 + 1), 10) + b) + d2 - 3049

\* FFCalendarGregorianToJD, in half days.
FFCalendarGregorianToJD(y, m, d2) ==
    d2 - 1
    + 2 * (-32075 + Quot(1461 * (y + 4800 + Quot(m - 14, 12)), 4)
           + Quot(367 * (m - 2 - Quot(m - 14, 12) * 12), 12)
           - Quot(3 * Quot(y + 4900 + Quot(m - 14, 12), 100), 4))

daysSinceFeb ==
    LET \* at the start of mar 1, there have been 0 days
        mar == 0
        apr == mar + 31
        may == apr + 30
        jun == may + 31
        jul == jun + 30
        aug == jul + 31
        sep == aug + 31
        oct == sep + 30
        nov == oct + 31
        dec == nov + 30
        jan == dec + 31
        feb == jan + 31
    IN  [i \in 0..12 |->
            <<0, jan, feb, mar, apr, may, jun, jul, aug, sep, oct, nov, dec>>[i + 1]]

\* CalendarGregorianToMJD without its y-- for January and February.
CalendarGregorianToMJDSameYear(y, m, d2) ==
    2 * (daysSinceFeb[m] + 365 * y + Quot(y, 4) - Quot(y, 100) + Quot(y, 400)
         - 678882) + d2

\* CalendarGregorianToMJD, in half days.
CalendarGregorianToMJD(y, m, d2) ==
    LET y1 == IF m <= 2 THEN y - 1 ELSE y
    IN  2 * (daysSinceFeb[m] + 365 * y1 + Quot(y1, 4) - Quot(y1, 100)
             + Quot(y1, 400) - 678882) + d2

\* The years converted: those around the centuries and the leap years, the
\* first ones of the calendar and the last ones.
Years ==
    { y \in 1582..MaxYear :
        \/ y < 1590
        \/ y % 100 \in {0, 99}
        \/ y % 400 = 4
        \/ y > MaxYear - 3 }

\* Days of month m of year y in the Gregorian calendar.
DaysIn(y, m) ==
    IF m = 2
    THEN (IF y % 4 = 0 /\ (y % 100 # 0 \/ y % 400 = 0) THEN 29 ELSE 28)
    ELSE IF m \in {4, 6, 9, 11} THEN 30 ELSE 31

NoJD == [ja |-> 0, jf |-> 0, jm |-> 0]

\* A date from 1582-11-01 on: each day at 0h, the first of a month also at 12h.
DateInit ==
    /\ gy \in Years
    /\ gm \in 1..12
    /\ gy = 1582 => gm >= 11
    /\ gd \in { 2 * day : day \in 1..DaysIn(gy, gm) } \cup {3}
    /\ gpc = "call"
    /\ gout = NoJD

DateIdle ==
    /\ gy = 0
    /\ gm = 0
    /\ gd = 0
    /\ gpc = "idle"
    /\ gout = NoJD

\* The three conversions of the date.
Convert ==
    /\ gpc = "call"
    /\ gout' = [ja |-> MeeusCalendarGregorianToJD(gy, gm, gd),
                jf |-> FFCalendarGregorianToJD(gy, gm, gd),
                jm |-> CalendarGregorianToMJD(gy, gm, gd)]
    /\ gpc' = "done"
    /\ UNCHANGED <<gy, gm, gd, nonDateVars>>

DateNext == Convert

----------------------------------------------------------------------------
(* Horner, called on whole numbers (which float64 multiplies and adds      *)
(* exactly) and on the empty list.                                         *)

Xs == { k * Scale : k \in -MaxX..MaxX }

Coeffs == { k * Scale : k \in -MaxC..MaxC }

CoeffLists == UNION { [1..len -> Coeffs] : len \in 0..(MaxDeg + 1) }

HornerInit ==
    /\ hx \in Xs
    /\ hc \in CoeffLists
    /\ hpc = "call"
    /\ hout = 0

HornerIdle ==
    /\ hx = 0
    /\ hc = <<>>
    /\ hpc = "idle"
    /\ hout = 0

\* The call: c[len(c)-1] panics on the empty list.
HornerCall ==
    /\ hpc = "call"
    /\ IF hc = <<>>
       THEN /\ hpc' = "panic"
            /\ UNCHANGED hout
       ELSE /\ hpc' = "done"
            /\ hout' = Horner(hx, hc)
    /\ UNCHANGED <<hx, hc, nonHornerVars>>

HornerNext == HornerCall

----------------------------------------------------------------------------
(* floorDiv and floorDiv64. *)

Dividends == -MaxDiv..MaxDiv

\* y == 0 panics, as the built in division does.
Divisors == Dividends \ {0}

NoQuot == [q |-> 0, q64 |-> 0]

DivInit ==
    /\ dx \in Dividends
    /\ dy \in Divisors
    /\ dpc = "call"
    /\ dout = NoQuot

DivIdle ==
    /\ dx = 0
    /\ dy = 1
    /\ dpc = "idle"
    /\ dout = NoQuot

FloorDivCall ==
    /\ dpc = "call"
    /\ dout' = [q |-> floorDiv(dx, dy), q64 |-> floorDiv64(dx, dy)]
    /\ dpc' = "done"
    /\ UNCHANGED <<dx, dy, nonDivVars>>

DivNext == FloorDivCall

----------------------------------------------------------------------------
(* The specifications. *)

\* The loader on every input file.
Init ==
    /\ LoadInit
    /\ KeplerIdle
    /\ PModIdle
    /\ QueryIdle
    /\ DateIdle
    /\ HornerIdle
    /\ DivIdle

Next == LoadNext

Spec == Init /\ [][Next]_vars

\* The Kepler solver on every (e, M).
InitKepler ==
    /\ KeplerInit
    /\ LoadIdle
    /\ PModIdle
    /\ QueryIdle
    /\ DateIdle
    /\ HornerIdle
    /\ DivIdle

SpecKepler == InitKepler /\ [][KeplerNext]_vars

\* The call runs on: a goroutine that called kepler is scheduled until the
\* call returns.
SpecKeplerFair == SpecKepler /\ WF_vars(KeplerNext)

\* PMod on every pair of floats.
InitPMod ==
    /\ PModInit
    /\ LoadIdle
    /\ KeplerIdle
    /\ QueryIdle
    /\ DateIdle
    /\ HornerIdle
    /\ DivIdle

SpecPMod == InitPMod /\ [][PModNext]_vars

\* Concurrent queries on every sample model and orbit.
InitQuery ==
    /\ QueryInit
    /\ LoadIdle
    /\ KeplerIdle
    /\ PModIdle
    /\ DateIdle
    /\ HornerIdle
    /\ DivIdle

SpecQuery == InitQuery /\ [][QueryNext]_vars

\* The calendar conversions of every sample date.
InitDate ==
    /\ DateInit
    /\ LoadIdle
    /\ KeplerIdle
    /\ PModIdle
    /\ QueryIdle
    /\ HornerIdle
    /\ DivIdle

SpecDate == InitDate /\ [][DateNext]_vars

\* Horner on every sample argument.
InitHorner ==
    /\ HornerInit
    /\ LoadIdle
    /\ KeplerIdle
    /\ PModIdle
    /\ QueryIdle
    /\ DateIdle
    /\ DivIdle

SpecHorner == InitHorner /\ [][HornerNext]_vars

\* floorDiv and floorDiv64 on every sample argument.
InitDiv ==
    /\ DivInit
    /\ LoadIdle
    /\ KeplerIdle
    /\ PModIdle
    /\ QueryIdle
    /\ DateIdle
    /\ HornerIdle

SpecDiv == InitDiv /\ [][DivNext]_vars

----------------------------------------------------------------------------
(* The loader's claims. *)

\* parse stands on a line it takes for a header of its series.
AtHeader == pc = "header"

HeaderLine == lines[n + 1]

VersionOk == HeaderLine.c17 = fileVersion

BodyOk == HeaderLine.bo = b7[ibody + 1]

Count == Atoi(TrimSpace(HeaderLine.cnt))

\* The header passes the version, body and term count checks.
GoodHeader == AtHeader /\ VersionOk /\ BodyOk /\ Count.ok

ParseCauses == {"version", "body", "atoi", "eof", "float"}

Returned == pc = "done"

\* C2: on a header that declares zero terms parse moves on to the next
\* line (and so the load ends).
C2_ZeroCountMovesOn ==
    [][(GoodHeader /\ Count.val = 0) => (pc' = "loop" /\ n' = n + 1)]_vars

\* C3: a header whose declared term count exceeds the number of lines that
\* follow it, the boundary N = len(lines) - n included, makes the load return
\* the premature-end error.
C3_PrematureEndIsReported ==
    [][(GoodHeader /\ Count.val > Len(lines) - n - 1)
         => (pc' = "done" /\ ret'.model = "nil" /\ ret'.err.cause = "eof")]_vars

\* C4: a header at 0-based index n, in any section and after any number of
\* lines, with another version byte or another body name makes the load
\* fail with line number n + 1.
C4_MismatchReportsLine ==
    [][(AtHeader /\ (~VersionOk \/ ~BodyOk))
         => /\ pc' = "done"
            /\ ret'.model = "nil"
            /\ ret'.err.cause = (IF ~VersionOk THEN "version" ELSE "body")
            /\ ret'.err.line = n + 1]_vars

\* a body mismatch met in the radius section, on the third line
C4_Witness ==
    /\ Returned /\ sec = 3
    /\ ret.err = [cause |-> "body", line |-> 3]

\* The line an error names, as the cause requires it to be.
Offending(cause, line) ==
    CASE cause = "version" -> line.len >= 132 /\ line.c17 # fileVersion
      [] cause = "body"    -> line.len >= 132 /\ line.bo # b7[ibody + 1]
      [] cause = "atoi"    -> line.len >= 132 /\ ~Atoi(TrimSpace(line.cnt)).ok
      [] cause = "float"   -> Term(line).st = "err"
      [] OTHER             -> TRUE

C6_NoPartialModel ==
    Returned => /\ (ret.err # NoErr => ret.model = "nil")
                /\ (ret.model = "v" => ret.err = NoErr)

\* a failure in the latitude section after a longitude block was stored
C6_Witness ==
    /\ Returned /\ sec = 2
    /\ ret.err.cause \in ParseCauses
    /\ v.l[0] # <<>>

Series == {"l", "b", "r"}

\* The slots of a series that parse stored terms in.
Populated(series) == {x \in 0..5 : series[x] # <<>>}

Evaluated == pc = "evaluated"

\* C8 as stated: for each quantity Horner gets as many per-power sums as
\* the loader populated slots.
C8_HornerGetsPopulatedCount ==
    Evaluated =>
        \A q \in Series : Len(pos.args[q]) = Cardinality(Populated(v[q]))

\* C8 amended: for each quantity Horner gets six per-power sums, whatever
\* the loader populated, and the sum of an unpopulated slot is 0.
C8_HornerGetsSix ==
    Evaluated =>
        \A q \in Series :
            /\ Len(pos.args[q]) = 6
            /\ \A x \in 0..5 : x \notin Populated(v[q]) => pos.args[q][x + 1] = 0

\* only power 0 of the longitude was in the file
C8_Witness ==
    /\ Evaluated
    /\ Populated(v.l) = {0}
    /\ pos.args.l[1] # 0
    /\ pos.L # 0

\* C15: for every input sequence of lines coeff.parse ends by returning a
\* table or an error and never makes an out-of-range access: also when the
\* power byte of a header is no digit 0..5, when the declared term count is
\* negative, and when a data line of a block is shorter than 131 columns.
C15_NoOutOfRangeAccess == pc # "panic"

----------------------------------------------------------------------------
(* The Kepler solver's claims. *)

\* The stepwise solver and the operator kepler agree (a check of the model).
KeplerStepsAgree == kpc = "done" => Eret = kepler(ecc, M)

\* C1: whenever kepler2b exhausts its iteration budget and signals
\* non-convergence, kepler returns kepler3(e, M), never the placeholder that
\* came with the signal.
C1_FallbackOnNonConvergence ==
    (kpc = "done" /\ prim.err) => Eret = kepler3(ecc, M)

\* What bisection at this resolution leaves of error.
BisectTol == Scale \div 200

\* C7: for e = 0 kepler returns E = M itself, for every M, also outside
\* [0, Pi]: not M shifted by a multiple of 2*Pi.
C7_CircularReturnsM ==
    (kpc = "done" /\ ecc = 0) => Abs(Eret - M) <= BisectTol

\* For e = 0 the result is M wrapped into (-Pi, Pi] (what the code does).
C7_CircularReturnsWrapped ==
    (kpc = "done" /\ ecc = 0) =>
        \E k \in -2..2 : Abs(Eret - (M + k * TwoPi)) <= BisectTol

\* C13: the solver terminates within a fixed number of steps for every e
\* and M: kepler2b applies its update at most places times, every update
\* moves E by at most 0.5, kepler3 makes exactly 53 halving passes, and the
\* call returns.
C13_SolverTerminates ==
    /\ [](iter <= places /\ i3 <= halvings)
    /\ [][/\ (kpc = "iterate" /\ iter' = iter + 1) =>
               Abs(start' - start) <= Scale \div 2
          /\ (kpc = "iterate" /\ kpc' = "returned" /\ ~prim'.err) =>
               Abs(prim'.E - start) <= Scale \div 2
          /\ (kpc = "bisect" /\ i3' = i3 + 1) => d' = Quot(d, 2)
          /\ (kpc = "bisect" /\ kpc' = "done") => i3 = halvings]_vars
    /\ <>(kpc = "done")

\* a call at e = 0.9 that returned after several updates, one of them
\* limited to 0.5, and after kepler3's 53 passes
C13_Witness ==
    /\ kpc = "done"
    /\ ecc = (9 * Scale) \div 10
    /\ iter >= 2
    /\ i3 = halvings
    /\ Abs(betterUnclamped(ecc, M, M)) > Abs(M) + Scale \div 2

----------------------------------------------------------------------------
(* The queries' claims. *)

\* What the call of caller p returns when it runs alone.
Alone(p) ==
    IF call[p] = "Position2000"
    THEN LET r == Position2000(model, qjde[p]) IN [L |-> r.L, B |-> r.B, R |-> r.R]
    ELSE Position(o, qjde[p])

\* C9: position queries mutate no shared state: under every interleaving
\* of Position2000 calls on one model and Position calls on one Orbit the
\* coefficient tables, the Orbit's derived fields and the Elements stay as
\* constructed, and each call returns what it returns when run alone.
C9_QueriesShareNothing ==
    [][/\ model' = model
       /\ o' = o
       /\ \A p \in Procs :
             (qpc[p] # "done" /\ qpc'[p] = "done") => out'[p] = Alone(p)]_vars

\* two Position2000 calls for different dates that overlapped, both returned
C9_Witness ==
    /\ overlap
    /\ \A p \in Procs : qpc[p] = "done"
    /\ call[1] = "Position2000" /\ call[2] = "Position2000"
    /\ qjde[1] # qjde[2]
    /\ out[1] # out[2]

----------------------------------------------------------------------------
(* The calendar conversions' claims. *)

----------------------------------------------------------------------------
(* Horner's claims. *)

RECURSIVE Pow(_, _)
Pow(b, k) == IF k = 0 THEN 1 ELSE b * Pow(b, k - 1)

\* c[0] + c[1]*x + ... + c[n]*x^n from the term of index i on, for a whole x.
RECURSIVE Poly(_, _, _)
Poly(x, c, i) ==
    IF i > Len(c) THEN 0
    ELSE c[i] * Pow(x \div Scale, i - 1) + Poly(x, c, i + 1)

\* C12: for every x and every non-empty coefficient list Horner returns
\* c[0] + c[1]*x + ... + c[n]*x^n, c[0] being the constant term; so
\* Horner(0, c...) = c[0], and a one-element list returns c[0] for every x.
C12_HornerIsPolynomial ==
    hpc = "done" =>
        /\ hout = Poly(hx, hc, 1)
        /\ hx = 0 => hout = hc[1]
        /\ Len(hc) = 1 => hout = hc[1]

\* Horner(2, 1, 2, -1) = 1 + 2*2 - 1*4 = 1 (7 with the list reversed)
C12_Witness ==
    /\ hpc = "done"
    /\ hx = 2 * Scale
    /\ hc = <<Scale, 2 * Scale, -Scale>>
    /\ hout = Scale

----------------------------------------------------------------------------
(* floorDiv's claims. *)

\* The integer floor of x / y.
Floor(x, y) == IF y > 0 THEN x \div y ELSE (-x) \div (-y)

\* C14: for all integers x and all non-zero y of either sign floorDiv and
\* floorDiv64 return the integer floor of x / y, also when the signs
\* differ and y divides x, and when x = 0 and y is negative.
C14_FloorDivIsFloor ==
    dpc = "done" =>
        /\ dout.q = Floor(dx, dy)
        /\ dout.q64 = Floor(dx, dy)

----------------------------------------------------------------------------
(* PMod's claims. *)

\* The mathematical x mod y for y > 0, in [0, y).
FloorMod(x, y) == x - y * (x \div y)

\* math.Mod is exact: its result is a float.
ModIsExact == ppc = "call" => Representable(Mod(px, py))

\* C10: for positive y and every x PMod(x, y) is in [0, y) and congruent to
\* x modulo y (it is x mod y wherever that is a float); PMod(-1, 3) = 2, and
\* for negative y the result is outside that range: PMod(-1, -3) = -4.
C10_PModInRange ==
    ppc = "done" =>
        /\ py > 0 => /\ 0 <= pr /\ pr < py
                     /\ Representable(FloorMod(px, py)) => pr = FloorMod(px, py)
        /\ (px = -1 /\ py = 3) => pr = 2
        /\ (px = -1 /\ py = -3) => pr = -4

\* The examples of ExamplePMod.
PModExamples ==
    ppc = "done" =>
        /\ (px = -1 /\ py = 3) => pr = 2
        /\ (px = -1 /\ py = -3) => pr = -4

====
